---- MODULE Spec2Model ----
(***************************************************************************)
(* FanoutCache (src/diskcache/fanout.py): the sharding facade over N      *)
(* per-shard caches.  Each client is a thread or process using the same    *)
(* shards; one step of a client is one shard call of the facade method it  *)
(* is running, together with the handling of that call's outcome.  A shard *)
(* call is atomic (the shard's own transaction) and either answers or     *)
(* raises Timeout.  The shard store itself (diskcache.core.Cache) is not   *)
(* part of the sources at hand: its operations are modelled from the       *)
(* per-shard contract of the specification.                                *)
(***************************************************************************)
EXTENDS Integers, Sequences, FiniteSets, TLC

\* ------------------------------------------------------------------ bounds
NumShards == 2
MaxKey == 2
MaxVal == 2
MaxTime == 3
MaxTimeouts == 2
NumClients == 2

\* ------------------------------------------------- encodings of constants
\* Python's None, and core.ENOVAL (the no-value sentinel), as integers that
\* no stored value, expiry time or tag takes.
None == -1
ENOVAL == -2

Shards == 0 .. (NumShards - 1)
Keys == 0 .. MaxKey
Values == 1 .. MaxVal
Clients == 1 .. NumClients
Solo == {1}

BoolInt(b) == IF b THEN 1 ELSE 0

\* ------------------------------------------------------------ shard store
\* An item of a shard: <<value, expire_time, tag>>; Missing when there is no row.
Missing == <<>>
Item(value, expire_time, tag) == <<value, expire_time, tag>>
EmptyShard == [k \in Keys |-> Missing]

\* An item is logically absent after its expiration time.
Live(item, now) == item # Missing /\ (item[2] = None \/ now <= item[2])

ExpireTime(expire, now) == IF expire = None THEN None ELSE now + expire

\* shard.set(key, value, expire, read, tag): unconditional upsert.
ShardSet(sh, key, value, expire, tag, now) ==
    [sh EXCEPT ![key] = Item(value, ExpireTime(expire, now), tag)]

\* shard.add(key, value, expire, read, tag): True iff the key was absent.
ShardAddResult(sh, key, now) == ~Live(sh[key], now)
ShardAdd(sh, key, value, expire, tag, now) ==
    IF Live(sh[key], now) THEN sh ELSE ShardSet(sh, key, value, expire, tag, now)

\* shard.get(key, default, read, expire_time, tag): the default alone when the
\* key is absent; else the value, followed by the expiry time and the tag when
\* they are asked for, in that order.
ShardGet(sh, key, default, read, expire_time, tag, now) ==
    IF ~Live(sh[key], now)
    THEN [kind |-> "value", val |-> <<default>>]
    ELSE [kind |-> IF expire_time \/ tag
                   THEN (IF read THEN "handle_tuple" ELSE "tuple")
                   ELSE (IF read THEN "handle" ELSE "value"),
          val |-> <<sh[key][1]>>
                  \o (IF expire_time THEN <<sh[key][2]>> ELSE <<>>)
                  \o (IF tag THEN <<sh[key][3]>> ELSE <<>>)]

\* key in shard
ShardContains(sh, key, now) == Live(sh[key], now)

\* shard.__delitem__(key): KeyError when the key is absent, else the row goes.
ShardDelFound(sh, key, now) == Live(sh[key], now)
ShardDel(sh, key) == [sh EXCEPT ![key] = Missing]

\* The keys a sweep call of a shard may remove: expire(now), evict(tag), clear().
Matching(sh, name, args) ==
    CASE name = "expire" ->
           {k \in Keys : sh[k] # Missing /\ sh[k][2] # None /\ sh[k][2] < args[1]}
      [] name = "evict" -> {k \in Keys : sh[k] # Missing /\ sh[k][3] = args[1]}
      [] OTHER -> {k \in Keys : sh[k] # Missing}

Remove(sh, R) == [k \in Keys |-> IF k \in R THEN Missing ELSE sh[k]]

\* A sweep call that returns normally removes a batch of the matching items,
\* empty only when none is left; one that times out has removed any part.
SweepBatches(sh, name, args) ==
    LET M == Matching(sh, name, args)
    IN  IF M = {} THEN {{}} ELSE (SUBSET M) \ {{}}
SweepPartials(sh, name, args) == SUBSET Matching(sh, name, args)

\* len(shard), shard.volume(), shard.check(fix), shard.stats(enable, reset)
ShardLen(sh) == Cardinality({k \in Keys : sh[k] # Missing})
ShardVolume(sh) == ShardLen(sh)
ShardCheck(sh, fix) == <<>>
ShardStats(sh, enable, reset) == <<0, 0>>

\* ------------------------------------------------------------------ state
VARIABLES
    shards,     \* self._shards: shard index -> key -> item
    settings,   \* per shard: the Settings table (tag_index and one more key)
    clock,      \* time.time()
    call        \* per client: the facade call it is running

vars == <<shards, settings, clock, call>>

SettingKeys == {"tag_index", "cull_limit"}

NoResult == [kind |-> "pending", val |-> <<>>]
Ret(kind, val) == [kind |-> kind, val |-> val]
RetBool(b) == Ret(IF b THEN "True" ELSE "False", <<>>)
Raise(exc) == Ret(exc, <<>>)

Idle ==
    [op |-> "idle", pc |-> "idle", key |-> None, value |-> None,
     expire |-> None, tag |-> None, retry |-> FALSE, default |-> None,
     read |-> FALSE, expire_time |-> FALSE, wtag |-> FALSE,
     setting |-> "", index |-> 0, total |-> 0, acc |-> <<>>, args |-> <<>>,
     result |-> NoResult,
     \* history of the call, for the properties
     attempts |-> 0, timeouts |-> 0, touched |-> {}, answered |-> NoResult,
     start |-> 0, size0 |-> 0, gone |-> {}, lapped |-> FALSE]

RouteFirst(key) == 0

\* hash(key) for a small non-negative int key (CPython), and the routing index
\* hash(key) % self._count
Hash(key) == key
Route(key) == Hash(key) % NumShards

Init ==
    /\ shards = [s \in Shards |-> EmptyShard]
    /\ settings = [s \in Shards |-> [k \in SettingKeys |-> 0]]
    /\ clock = 1
    /\ call = [c \in Clients |-> Idle]

\* One shard call was issued to shard i by client c.
Issued(r, i) == [r EXCEPT !.attempts = @ + 1, !.touched = @ \cup {i}]
TimedOut(r) == [r EXCEPT !.timeouts = @ + 1]
Answered(r, res) == [r EXCEPT !.answered = res]
Finish(r, res) == [r EXCEPT !.pc = "done", !.result = res]

\* A client starts a facade call: r is the call with its arguments bound.
Begin(c, r) ==
    /\ call[c].pc = "idle"
    /\ call' = [call EXCEPT ![c] = [r EXCEPT !.pc = "loop"]]
    /\ UNCHANGED <<shards, settings, clock>>

\* The shard call of client c may time out (the bound keeps the model finite).
MayTimeout(c) == call[c].timeouts < MaxTimeouts

Running(c, ops) == call[c].pc = "loop" /\ call[c].op \in ops

\* ------------------------------------------------------- set, __setitem__
CallSet(c, key, value, expire, tag, retry) ==
    Begin(c, [Idle EXCEPT !.op = "set", !.key = key, !.value = value,
                          !.expire = expire, !.tag = tag, !.retry = retry,
                          !.index = Route(key)])

SetExceptGiveUp(r) == Finish(TimedOut(r), RetBool(FALSE))

\* except Timeout: continue if retry, else return False
SetExcept(r) ==
    IF r.retry THEN TimedOut(r) ELSE Finish(TimedOut(r), RetBool(FALSE))

SetStep(c) ==
    LET r == Issued(call[c], call[c].index)
        i == call[c].index
    IN  /\ Running(c, {"set"})
        /\ \/ /\ shards' = [shards EXCEPT ![i] =
                       ShardSet(@, r.key, r.value, r.expire, r.tag, clock)]
              /\ call' = [call EXCEPT ![c] =
                       Finish(Answered(r, RetBool(TRUE)), RetBool(TRUE))]
           \/ /\ MayTimeout(c)
              /\ shards' = shards
              /\ call' = [call EXCEPT ![c] = SetExcept(r)]
        /\ UNCHANGED <<settings, clock>>

CallSetItemByValue(c, key, value) ==
    Begin(c, [Idle EXCEPT !.op = "__setitem__", !.key = key, !.value = value,
                          !.retry = TRUE, !.index = Route(value)])

CallSetItem(c, key, value) ==
    Begin(c, [Idle EXCEPT !.op = "__setitem__", !.key = key, !.value = value,
                          !.retry = TRUE, !.index = Route(key)])

SetItemExceptRaise(r) == Finish(TimedOut(r), Raise("Timeout"))
SetItemExceptFalse(r) == Finish(TimedOut(r), RetBool(FALSE))

\* except Timeout: continue
SetItemExcept(r) == TimedOut(r)

SetItemStep(c) ==
    LET r == Issued(call[c], call[c].index)
        i == call[c].index
    IN  /\ Running(c, {"__setitem__"})
        /\ \/ /\ shards' = [shards EXCEPT ![i] =
                       ShardSet(@, r.key, r.value, None, None, clock)]
              /\ call' = [call EXCEPT ![c] =
                       Finish(Answered(r, RetBool(TRUE)), RetBool(TRUE))]
           \/ /\ MayTimeout(c)
              /\ shards' = shards
              /\ call' = [call EXCEPT ![c] = SetItemExcept(r)]
        /\ UNCHANGED <<settings, clock>>

\* -------------------------------------------------------------------- add
CallAddByValue(c, key, value, expire, tag, retry) ==
    Begin(c, [Idle EXCEPT !.op = "add", !.key = key, !.value = value,
                          !.expire = expire, !.tag = tag, !.retry = retry,
                          !.index = Route(value)])

CallAdd(c, key, value, expire, tag, retry) ==
    Begin(c, [Idle EXCEPT !.op = "add", !.key = key, !.value = value,
                          !.expire = expire, !.tag = tag, !.retry = retry,
                          !.index = Route(key)])

AddExceptTrue(r) ==
    IF r.retry THEN TimedOut(r) ELSE Finish(TimedOut(r), RetBool(TRUE))

\* except Timeout: continue if retry, else return False
AddExcept(r) ==
    IF r.retry THEN TimedOut(r) ELSE Finish(TimedOut(r), RetBool(FALSE))

AddStep(c) ==
    LET r == Issued(call[c], call[c].index)
        i == call[c].index
        ok == ShardAddResult(shards[i], r.key, clock)
    IN  /\ Running(c, {"add"})
        /\ \/ /\ shards' = [shards EXCEPT ![i] =
                       ShardAdd(@, r.key, r.value, r.expire, r.tag, clock)]
              /\ call' = [call EXCEPT ![c] =
                       Finish(Answered(r, RetBool(ok)), RetBool(ok))]
           \/ /\ MayTimeout(c)
              /\ shards' = shards
              /\ call' = [call EXCEPT ![c] = AddExcept(r)]
        /\ UNCHANGED <<settings, clock>>

\* ------------------------------------------------- get, __getitem__, read
CallGet(c, key, default, read, expire_time, tag, retry) ==
    Begin(c, [Idle EXCEPT !.op = "get", !.key = key, !.default = default,
                          !.read = read, !.expire_time = expire_time,
                          !.wtag = tag, !.retry = retry, !.index = Route(key)])

\* __getitem__: self.get(key, default=ENOVAL)
CallGetItem(c, key) ==
    Begin(c, [Idle EXCEPT !.op = "__getitem__", !.key = key,
                          !.default = ENOVAL, !.index = Route(key)])

CallReadNoRetry(c, key) ==
    Begin(c, [Idle EXCEPT !.op = "read", !.key = key, !.default = ENOVAL,
                          !.read = TRUE, !.index = Route(key)])

\* read: self.get(key, default=ENOVAL, read=True, retry=True)
CallRead(c, key) ==
    Begin(c, [Idle EXCEPT !.op = "read", !.key = key, !.default = ENOVAL,
                          !.read = TRUE, !.retry = TRUE, !.index = Route(key)])

\* What the caller of get makes of get's result: get itself returns it,
\* __getitem__ and read raise KeyError when it is ENOVAL.
GetResult(op, got) ==
    IF op \in {"__getitem__", "read"} /\ got = Ret("value", <<ENOVAL>>)
    THEN Raise("KeyError")
    ELSE got

GetExceptTuple(r) ==
    IF r.retry
    THEN TimedOut(r)
    ELSE Finish(TimedOut(r),
                IF r.expire_time \/ r.wtag
                THEN Ret("tuple", <<r.default>>
                                  \o (IF r.expire_time THEN <<None>> ELSE <<>>)
                                  \o (IF r.wtag THEN <<None>> ELSE <<>>))
                ELSE GetResult(r.op, Ret("value", <<r.default>>)))

\* except Timeout: continue if retry, else return default
GetExcept(r) ==
    IF r.retry
    THEN TimedOut(r)
    ELSE Finish(TimedOut(r), GetResult(r.op, Ret("value", <<r.default>>)))

GetStep(c) ==
    LET r == Issued(call[c], call[c].index)
        i == call[c].index
        got == ShardGet(shards[i], r.key, r.default, r.read, r.expire_time,
                        r.wtag, clock)
    IN  /\ Running(c, {"get", "__getitem__", "read"})
        /\ \/ call' = [call EXCEPT ![c] =
                       Finish(Answered(r, got), GetResult(r.op, got))]
           \/ /\ MayTimeout(c)
              /\ call' = [call EXCEPT ![c] = GetExcept(r)]
        /\ UNCHANGED <<shards, settings, clock>>

\* ----------------------------------------------------------- __contains__
CallContains(c, key) ==
    Begin(c, [Idle EXCEPT !.op = "__contains__", !.key = key,
                          !.index = Route(key)])

ContainsExceptFalse(r) == Finish(TimedOut(r), RetBool(FALSE))

\* no try: the shard's Timeout leaves __contains__ as it is
ContainsExcept(r) == Finish(TimedOut(r), Raise("Timeout"))

ContainsStep(c) ==
    LET r == Issued(call[c], call[c].index)
        i == call[c].index
        found == RetBool(ShardContains(shards[i], r.key, clock))
    IN  /\ Running(c, {"__contains__"})
        /\ \/ call' = [call EXCEPT ![c] = Finish(Answered(r, found), found)]
           \/ /\ MayTimeout(c)
              /\ call' = [call EXCEPT ![c] = ContainsExcept(r)]
        /\ UNCHANGED <<shards, settings, clock>>

\* ---------------------------------------------------- delete, __delitem__
CallDelete(c, key, retry) ==
    Begin(c, [Idle EXCEPT !.op = "delete", !.key = key, !.retry = retry,
                          !.index = Route(key)])

\* except Timeout: continue if retry, else return False
DeleteExcept(r) ==
    IF r.retry THEN TimedOut(r) ELSE Finish(TimedOut(r), RetBool(FALSE))
DeleteOnKeyErrorTrue == RetBool(TRUE)

\* except KeyError: return False
DeleteOnKeyError == RetBool(FALSE)

DeleteStep(c) ==
    LET r == Issued(call[c], call[c].index)
        i == call[c].index
    IN  /\ Running(c, {"delete"})
        /\ \/ /\ ShardDelFound(shards[i], r.key, clock)
              /\ shards' = [shards EXCEPT ![i] = ShardDel(@, r.key)]
              /\ call' = [call EXCEPT ![c] =
                       Finish(Answered(r, RetBool(TRUE)), RetBool(TRUE))]
           \/ /\ ~ShardDelFound(shards[i], r.key, clock)
              /\ shards' = shards
              /\ call' = [call EXCEPT ![c] =
                       Finish(Answered(r, Raise("KeyError")), DeleteOnKeyError)]
           \/ /\ MayTimeout(c)
              /\ shards' = shards
              /\ call' = [call EXCEPT ![c] = DeleteExcept(r)]
        /\ UNCHANGED <<settings, clock>>

CallDelItem(c, key) ==
    Begin(c, [Idle EXCEPT !.op = "__delitem__", !.key = key, !.retry = TRUE,
                          !.index = Route(key)])

DelItemOnKeyErrorFalse == RetBool(FALSE)

\* KeyError is not caught; except Timeout: continue
DelItemOnKeyError == Raise("KeyError")
DelItemExcept(r) == TimedOut(r)

DelItemStep(c) ==
    LET r == Issued(call[c], call[c].index)
        i == call[c].index
    IN  /\ Running(c, {"__delitem__"})
        /\ \/ /\ ShardDelFound(shards[i], r.key, clock)
              /\ shards' = [shards EXCEPT ![i] = ShardDel(@, r.key)]
              /\ call' = [call EXCEPT ![c] =
                       Finish(Answered(r, RetBool(TRUE)), RetBool(TRUE))]
           \/ /\ ~ShardDelFound(shards[i], r.key, clock)
              /\ shards' = shards
              /\ call' = [call EXCEPT ![c] =
                       Finish(Answered(r, Raise("KeyError")), DelItemOnKeyError)]
           \/ /\ MayTimeout(c)
              /\ shards' = shards
              /\ call' = [call EXCEPT ![c] = DelItemExcept(r)]
        /\ UNCHANGED <<settings, clock>>

\* ------------------------------------------- expire, evict, clear: _remove
\* The number of items in all shards.
StoreSize == Cardinality({p \in Shards \X Keys : shards[p[1]][p[2]] # Missing})

\* The call's record of the time and of the store's size when it began.
Sweep(name, args) ==
    [Idle EXCEPT !.op = name, !.args = args, !.start = clock, !.size0 = StoreSize]

\* self._remove('expire', (time.time(),))
CallExpire(c) == Begin(c, Sweep("expire", <<clock>>))
\* self._remove('evict', (tag,))
CallEvict(c, tag) == Begin(c, Sweep("evict", <<tag>>))
\* self._remove('clear')
CallClear(c) == Begin(c, Sweep("clear", <<>>))

SweepOps == {"expire", "evict", "clear"}

SweepArgsNow(r, now) == IF r.op = "expire" THEN <<now>> ELSE r.args

\* method(*args): the arguments fixed when the call began (now is the clock
\* at the time of this shard call, which the code does not read).
SweepArgs(r, now) == r.args

RemoveReturnedOnce(r, count) ==
    LET t == [r EXCEPT !.total = @ + count]
    IN  IF r.index = NumShards - 1
        THEN Finish(t, Ret("count", <<t.total>>))
        ELSE [t EXCEPT !.index = @ + 1]

RemoveReturnedRetry(r, count) == [TimedOut(r) EXCEPT !.total = @ + count]

\* count = method(*args); total += count; else: if not count: break
\* and, after the last shard, return total
RemoveReturned(r, count) ==
    LET t == [r EXCEPT !.total = @ + count]
    IN  IF count # 0 THEN t
        ELSE IF r.index = NumShards - 1
             THEN Finish(t, Ret("count", <<t.total>>))
             ELSE [t EXCEPT !.index = @ + 1]

RemoveExceptLost(r, partial) == TimedOut(r)
RemoveExceptNext(r, partial) ==
    LET t == [TimedOut(r) EXCEPT !.total = @ + partial]
    IN  IF r.index = NumShards - 1
        THEN Finish(t, Ret("count", <<t.total>>))
        ELSE [t EXCEPT !.index = @ + 1]

\* except Timeout as timeout: total += timeout.args[0]
RemoveExcept(r, partial) == [TimedOut(r) EXCEPT !.total = @ + partial]

\* The call's record of the expiry times of the items expire() removed.
Removing(r, sh, R) ==
    [r EXCEPT !.gone = IF r.op = "expire" THEN @ \cup {sh[k][2] : k \in R} ELSE @]

RemoveStep(c) ==
    LET r0 == Issued(call[c], call[c].index)
        i == r0.index
        sh == shards[i]
        args == SweepArgs(r0, clock)
    IN  /\ Running(c, SweepOps)
        /\ \/ \E R \in SweepBatches(sh, r0.op, args) :
                /\ shards' = [shards EXCEPT ![i] = Remove(sh, R)]
                /\ call' = [call EXCEPT ![c] =
                         RemoveReturned(Removing(r0, sh, R), Cardinality(R))]
           \/ /\ MayTimeout(c)
              /\ \E R \in SweepPartials(sh, r0.op, args) :
                    /\ shards' = [shards EXCEPT ![i] = Remove(sh, R)]
                    /\ call' = [call EXCEPT ![c] =
                             RemoveExcept(Removing(r0, sh, R), Cardinality(R))]
        /\ UNCHANGED <<settings, clock>>

\* ------------------------------------------ check, stats, volume, __len__
\* Each visits the shards in order and lets a shard's Timeout through.
CallCheck(c, fix) ==
    Begin(c, [Idle EXCEPT !.op = "check", !.args = <<BoolInt(fix)>>])
CallStats(c, enable, reset) ==
    Begin(c, [Idle EXCEPT !.op = "stats", !.acc = <<0, 0>>,
                          !.args = <<BoolInt(enable), BoolInt(reset)>>])
CallVolume(c) == Begin(c, [Idle EXCEPT !.op = "volume"])
CallLen(c) == Begin(c, [Idle EXCEPT !.op = "__len__"])

AdvanceReturn(r, res) == Finish(r, res)

\* The next shard, or the end of the iteration with the reduced result.
Advance(r, res) ==
    IF r.index = NumShards - 1 THEN Finish(r, res) ELSE [r EXCEPT !.index = @ + 1]

CheckExcept(r) == Finish(TimedOut(r), Raise("Timeout"))
CheckStep(c) ==
    LET r == Issued(call[c], call[c].index)
        w == r.acc \o ShardCheck(shards[r.index], r.args[1] = 1)
    IN  /\ Running(c, {"check"})
        /\ \/ call' = [call EXCEPT ![c] =
                       Advance([r EXCEPT !.acc = w], Ret("list", w))]
           \/ /\ MayTimeout(c)
              /\ call' = [call EXCEPT ![c] = CheckExcept(r)]
        /\ UNCHANGED <<shards, settings, clock>>

StatsExcept(r) == Finish(TimedOut(r), Raise("Timeout"))
StatsStep(c) ==
    LET r == Issued(call[c], call[c].index)
        res == ShardStats(shards[r.index], r.args[1] = 1, r.args[2] = 1)
        sum == <<r.acc[1] + res[1], r.acc[2] + res[2]>>
    IN  /\ Running(c, {"stats"})
        /\ \/ call' = [call EXCEPT ![c] =
                       Advance([r EXCEPT !.acc = sum], Ret("pair", sum))]
           \/ /\ MayTimeout(c)
              /\ call' = [call EXCEPT ![c] = StatsExcept(r)]
        /\ UNCHANGED <<shards, settings, clock>>

VolumeExcept(r) == Finish(TimedOut(r), Raise("Timeout"))
VolumeStep(c) ==
    LET r == Issued(call[c], call[c].index)
        sum == r.total + ShardVolume(shards[r.index])
    IN  /\ Running(c, {"volume"})
        /\ \/ call' = [call EXCEPT ![c] =
                       Advance([r EXCEPT !.total = sum], Ret("count", <<sum>>))]
           \/ /\ MayTimeout(c)
              /\ call' = [call EXCEPT ![c] = VolumeExcept(r)]
        /\ UNCHANGED <<shards, settings, clock>>

LenExcept(r) == Finish(TimedOut(r), Raise("Timeout"))
LenStep(c) ==
    LET r == Issued(call[c], call[c].index)
        sum == r.total + ShardLen(shards[r.index])
    IN  /\ Running(c, {"__len__"})
        /\ \/ call' = [call EXCEPT ![c] =
                       Advance([r EXCEPT !.total = sum], Ret("count", <<sum>>))]
           \/ /\ MayTimeout(c)
              /\ call' = [call EXCEPT ![c] = LenExcept(r)]
        /\ UNCHANGED <<shards, settings, clock>>

\* --------------------------------------- create_tag_index, drop_tag_index
CallCreateTagIndex(c) == Begin(c, [Idle EXCEPT !.op = "create_tag_index"])
CallDropTagIndex(c) == Begin(c, [Idle EXCEPT !.op = "drop_tag_index"])

\* no try: the shard's Timeout leaves the loop over the shards
CreateTagIndexExcept(r) == Finish(TimedOut(r), Raise("Timeout"))
CreateTagIndexStep(c) ==
    LET r == Issued(call[c], call[c].index)
    IN  /\ Running(c, {"create_tag_index"})
        /\ \/ /\ settings' = [settings EXCEPT ![r.index]["tag_index"] = 1]
              /\ call' = [call EXCEPT ![c] = Advance(r, Ret("None", <<>>))]
           \/ /\ MayTimeout(c)
              /\ settings' = settings
              /\ call' = [call EXCEPT ![c] = CreateTagIndexExcept(r)]
        /\ UNCHANGED <<shards, clock>>

DropTagIndexExcept(r) == Finish(TimedOut(r), Raise("Timeout"))
DropTagIndexStep(c) ==
    LET r == Issued(call[c], call[c].index)
    IN  /\ Running(c, {"drop_tag_index"})
        /\ \/ /\ settings' = [settings EXCEPT ![r.index]["tag_index"] = 0]
              /\ call' = [call EXCEPT ![c] = Advance(r, Ret("None", <<>>))]
           \/ /\ MayTimeout(c)
              /\ settings' = settings
              /\ call' = [call EXCEPT ![c] = DropTagIndexExcept(r)]
        /\ UNCHANGED <<shards, clock>>

\* ------------------------------------------------------------------ reset
CallReset(c, key, value) ==
    Begin(c, [Idle EXCEPT !.op = "reset", !.setting = key, !.value = value])

\* shard.reset(key, value): reloads the setting when no value is given, else
\* updates it; the setting's value afterwards is the result.
ShardReset(st, key, value) == IF value = ENOVAL THEN st ELSE [st EXCEPT ![key] = value]

ResetExceptSkip(r) == Advance(TimedOut(r), Raise("Timeout"))

\* except Timeout: pass (the while loop calls the same shard again)
ResetExcept(r) == TimedOut(r)

ResetStep(c) ==
    LET r == Issued(call[c], call[c].index)
        key == r.setting
        st == ShardReset(settings[r.index], key, r.value)
    IN  /\ Running(c, {"reset"})
        /\ \/ /\ settings' = [settings EXCEPT ![r.index] = st]
              /\ call' = [call EXCEPT ![c] =
                       Advance(Answered(r, Ret("value", <<st[key]>>)),
                               Ret("value", <<st[key]>>))]
           \/ /\ MayTimeout(c)
              /\ settings' = settings
              /\ call' = [call EXCEPT ![c] = ResetExcept(r)]
        /\ UNCHANGED <<shards, clock>>

\* ------------------------------------------------------- the environment
\* The caller takes the result (or the exception) and is free to call again.
Return(c) ==
    /\ call[c].pc = "done"
    /\ call' = [call EXCEPT ![c] = Idle]
    /\ UNCHANGED <<shards, settings, clock>>

\* time.time() advances (up to MaxTime, which keeps the model finite).
Tick ==
    /\ clock < MaxTime
    /\ clock' = clock + 1
    /\ UNCHANGED <<shards, settings, call>>

Expires == {None, 1}
Tags == {None, 1}
Defaults == {None, 0}

SettingValues == {ENOVAL, 1}

\* The single-key operations of client c, with their arguments drawn from
\* K (keys), V (values), E (expire), T (tags) and F (get's flags).
KeyOps(c, K, V, E, T, F) ==
    \/ \E k \in K, v \in V, e \in E, t \in T, r \in BOOLEAN :
          CallSet(c, k, v, e, t, r)
    \/ SetStep(c)
    \/ \E k \in K, v \in V : CallSetItem(c, k, v)
    \/ SetItemStep(c)
    \/ \E k \in K, v \in V, e \in E, t \in T, r \in BOOLEAN :
          CallAdd(c, k, v, e, t, r)
    \/ AddStep(c)
    \/ \E k \in K, d \in Defaults, rd, et, tg \in F, r \in BOOLEAN :
          CallGet(c, k, d, rd, et, tg, r)
    \/ \E k \in K : CallGetItem(c, k)
    \/ \E k \in K : CallRead(c, k)
    \/ GetStep(c)
    \/ \E k \in K : CallContains(c, k)
    \/ ContainsStep(c)
    \/ \E k \in K, r \in BOOLEAN : CallDelete(c, k, r)
    \/ DeleteStep(c)
    \/ \E k \in K : CallDelItem(c, k)
    \/ DelItemStep(c)

\* The whole-cache removals of client c.
SweepCalls(c, T) ==
    \/ CallExpire(c)
    \/ \E t \in T : CallEvict(c, t)
    \/ CallClear(c)
    \/ RemoveStep(c)

\* The reducers over the shards, and the settings of every shard.
CacheOps(c) ==
    \/ \E fix \in BOOLEAN : CallCheck(c, fix)
    \/ CheckStep(c)
    \/ \E en, rs \in BOOLEAN : CallStats(c, en, rs)
    \/ StatsStep(c)
    \/ CallVolume(c)
    \/ VolumeStep(c)
    \/ CallLen(c)
    \/ LenStep(c)
    \/ CallCreateTagIndex(c)
    \/ CreateTagIndexStep(c)
    \/ CallDropTagIndex(c)
    \/ DropTagIndexStep(c)
    \/ \E v \in SettingValues : CallReset(c, "tag_index", v)
    \/ ResetStep(c)

\* One client using every operation of the facade, on items that do not
\* expire.
Next ==
    \E c \in Solo :
        \/ KeyOps(c, Keys, {1}, {None}, Tags, {FALSE})
        \/ SweepCalls(c, Tags)
        \/ CacheOps(c)
        \/ Return(c)

Spec == Init /\ [][Next]_vars

\* One client using the single-key operations, with every value and every
\* flag of get, on untagged items that do not expire.
NextKeys ==
    \E c \in Solo :
        \/ KeyOps(c, Keys, Values, {None}, {None}, BOOLEAN)
        \/ Return(c)

SpecKeys == Init /\ [][NextKeys]_vars

\* One client filling the cache and sweeping it while the clock advances; an
\* item it stores is tagged, or expires, or neither.
NextSweep ==
    \/ Tick
    \/ \E c \in Solo :
        \/ \E k \in Keys, e \in Expires, t \in Tags :
              (e = None \/ t = None) /\ CallSet(c, k, 1, e, t, TRUE)
        \/ SetStep(c)
        \/ SweepCalls(c, Tags)
        \/ Return(c)

SpecSweep == Init /\ [][NextSweep]_vars

\* Every client calls add once, for a key of its choice, with its own value;
\* the calls are concurrent: the shard calls start when all are in flight, and
\* interleave in every order.
NextAdd ==
    \E c \in Clients :
        \/ \E k \in Keys, r \in BOOLEAN : CallAdd(c, k, c, None, None, r)
        \/ (\A d \in Clients : call[d].pc # "idle") /\ AddStep(c)

SpecAdd == Init /\ [][NextAdd]_vars

\* The values reset is called with: none given (reload), or a new value.
ResetValues == {ENOVAL, 1, 2}

\* Every client calls reset once for the same setting, with a value of its
\* choice or none; the per-shard calls of the clients interleave in every order.
NextReset ==
    \E c \in Clients :
        \/ \E v \in ResetValues : CallReset(c, "cull_limit", v)
        \/ ResetStep(c)

SpecReset == Init /\ [][NextReset]_vars

\* Every client calls one of the operations that change the shards, once, on
\* an untagged item of value 1 that does not expire; the shard calls of the
\* clients interleave in every order.
NextShared ==
    \E c \in Clients :
        \/ \E k \in Keys : CallSet(c, k, 1, None, None, FALSE)
        \/ SetStep(c)
        \/ \E k \in Keys : CallSetItem(c, k, 1)
        \/ SetItemStep(c)
        \/ \E k \in Keys : CallAdd(c, k, 1, None, None, FALSE)
        \/ AddStep(c)
        \/ CallClear(c)
        \/ RemoveStep(c)

SpecShared == Init /\ [][NextShared]_vars

\* The retry loops have no limit of attempts: when the count of a call's
\* timeouts has reached MaxTimeouts, the count starts over (and with it the
\* count of attempts), so that a call can time out for ever.
Lap(c) ==
    /\ call[c].pc = "loop"
    /\ call[c].timeouts = MaxTimeouts
    /\ call' = [call EXCEPT ![c].timeouts = 0,
                            ![c].attempts = @ - MaxTimeouts,
                            ![c].lapped = TRUE]
    /\ UNCHANGED <<shards, settings, clock>>

\* One shard call, and the handling of its outcome, of the call c is running.
ShardCall(c) ==
    \/ SetStep(c)
    \/ SetItemStep(c)
    \/ AddStep(c)
    \/ GetStep(c)
    \/ DeleteStep(c)
    \/ DelItemStep(c)
    \/ ResetStep(c)
    \/ RemoveStep(c)

\* A shard call of client c that does not time out.
ShardAnswers(c) == ShardCall(c) /\ call'[c].timeouts = call[c].timeouts

\* One client using the operations that retry, with retry on where it is a
\* parameter, on untagged items that do not expire.
NextLive ==
    \E c \in Solo :
        \/ \E k \in Keys : CallSet(c, k, 1, None, None, TRUE)
        \/ \E k \in Keys : CallSetItem(c, k, 1)
        \/ \E k \in Keys : CallAdd(c, k, 1, None, None, TRUE)
        \/ \E k \in Keys : CallGet(c, k, None, FALSE, FALSE, FALSE, TRUE)
        \/ \E k \in Keys : CallRead(c, k)
        \/ \E k \in Keys : CallDelete(c, k, TRUE)
        \/ \E k \in Keys : CallDelItem(c, k)
        \/ CallReset(c, "cull_limit", 1)
        \/ CallExpire(c)
        \/ CallEvict(c, None)
        \/ CallClear(c)
        \/ ShardCall(c)
        \/ Lap(c)
        \/ Return(c)

\* No shard times out for ever on a call that is issued again and again.
SpecLive == Init /\ [][NextLive]_vars /\ \A c \in Solo : WF_vars(ShardAnswers(c))

\* The clients keep running, and the shards time out as they will.
SpecSpin == Init /\ [][NextLive]_vars /\ WF_vars(NextLive)

\* ================================================================ claims
Sweeping(c) == call[c].op \in SweepOps
Done(c) == call[c].pc = "done"

\* C1: for expire, evict and clear, whatever the shards' sweep calls return
\* and however many of them time out with whatever partial count, the total
\* of the call is the number of items the store lost since the call began:
\* at every moment of the call, and in the value it returns.
C1_SweepTotalExact ==
    \A c \in Solo :
        Sweeping(c) =>
            /\ call[c].total = call[c].size0 - StoreSize
            /\ Done(c) => call[c].result = Ret("count", <<call[c].size0 - StoreSize>>)

\* A clear that ended after one timeout and one normal return of zero per
\* shard: the two items it removed were counted by the timeout alone.
C1_Witness ==
    \E c \in Solo :
        /\ call[c].op = "clear" /\ Done(c)
        /\ call[c].timeouts = 1
        /\ call[c].attempts = NumShards + 1
        /\ call[c].result = Ret("count", <<2>>)

\* C6: expire() passes the timestamp taken when the call began to every sweep
\* call, so no item whose expiry time is after the call's start is removed by
\* the call, however far the clock has advanced since.
C6_ExpireOneTimestamp ==
    \A c \in Solo :
        call[c].op = "expire" =>
            /\ call[c].args = <<call[c].start>>
            /\ \A e \in call[c].gone : e <= call[c].start

\* An expire() that ended after the clock advanced past the expiry time of an
\* item that was live when the call began, and that is still stored.
C6_Witness ==
    \E c \in Solo :
        /\ call[c].op = "expire" /\ Done(c)
        /\ \E s \in Shards, k \in Keys :
              /\ shards[s][k] # Missing
              /\ shards[s][k][2] # None
              /\ call[c].start < shards[s][k][2]
              /\ shards[s][k][2] < clock

\* C7: run alone, clear() returns the number of items stored when it began
\* and leaves every shard empty: len() is 0 and every get finds its default.
C7_ClearEmpties ==
    \A c \in Solo :
        (call[c].op = "clear" /\ Done(c)) =>
            /\ call[c].result = Ret("count", <<call[c].size0>>)
            /\ \A s \in Shards : ShardLen(shards[s]) = 0
            /\ \A k \in Keys, d \in Defaults :
                  ShardGet(shards[Hash(k) % NumShards], k, d, FALSE, FALSE, FALSE,
                           clock) = Ret("value", <<d>>)

\* A clear that removed three items, stored in both shards, with timeouts on
\* the way.
C7_Witness ==
    \E c \in Solo :
        /\ call[c].op = "clear" /\ Done(c)
        /\ call[c].size0 = 3
        /\ call[c].timeouts = MaxTimeouts
        /\ call[c].attempts > NumShards + MaxTimeouts

\* The operations that take a retry flag, and what each returns when it
\* gives up: False, or get's default.
RetryOps == {"set", "add", "delete", "get"}
NoEffect(r) == IF r.op = "get" THEN Ret("value", <<r.default>>) ELSE RetBool(FALSE)
Owner(c) == Hash(call[c].key) % NumShards
Absent(c) == ~ShardContains(shards[Owner(c)], call[c].key, clock)

\* C3: set, add, delete and get with retry=False: once the shard call has
\* timed out the call is over after that one attempt, with False (set, add,
\* delete) or the default alone (get, whatever was asked for with it) and no
\* exception; and the step on which the shard times out changes no shard.
C3_NoRetryNoEffect ==
    /\ [](\A c \in Solo :
            (call[c].op \in RetryOps /\ ~call[c].retry /\ call[c].timeouts >= 1) =>
                /\ Done(c)
                /\ call[c].attempts = 1
                /\ call[c].result = NoEffect(call[c]))
    /\ [][\A c \in Solo :
            (call[c].op \in RetryOps /\ ~call[c].retry
               /\ call'[c].timeouts > call[c].timeouts) => shards' = shards]_vars

\* A get(key, default=0, expire_time=True, tag=True) of a stored key that
\* timed out and returned 0.
C3_Witness ==
    \E c \in Solo :
        /\ call[c].op = "get" /\ Done(c) /\ ~call[c].retry
        /\ call[c].expire_time /\ call[c].wtag
        /\ call[c].timeouts = 1
        /\ ~Absent(c)
        /\ call[c].result = Ret("value", <<0>>)

\* What the facade returns for the shard's answer: delete turns the shard's
\* KeyError into False.
FromAnswer(r) ==
    IF r.op = "delete" /\ r.answered = Raise("KeyError") THEN RetBool(FALSE)
    ELSE r.answered

\* C4: set, add, get and delete with retry=True: a timeout never ends the
\* call, the next attempt goes to the same shard, and the value returned is
\* the one a shard call that did not time out gave.
C4_RetryUntilAnswered ==
    /\ [](\A c \in Solo :
            (call[c].op \in RetryOps /\ call[c].retry /\ Done(c)) =>
                /\ call[c].answered # NoResult
                /\ call[c].result = FromAnswer(call[c])
                /\ call[c].attempts = call[c].timeouts + 1
                /\ call[c].touched = {Owner(c)}
                /\ (call[c].op = "set" /\ call[c].result = RetBool(FALSE))
                      => call[c].answered = RetBool(FALSE))
    /\ [][\A c \in Solo :
            (call[c].op \in RetryOps /\ call[c].retry
               /\ call'[c].timeouts > call[c].timeouts) =>
                /\ call'[c].pc = "loop"
                /\ call'[c].index = call[c].index
                /\ call'[c].result = NoResult]_vars

\* A set with retry=True that returned True after as many timeouts as the
\* model allows.
C4_Witness ==
    \E c \in Solo :
        /\ call[c].op = "set" /\ call[c].retry /\ Done(c)
        /\ call[c].timeouts = MaxTimeouts
        /\ call[c].result = RetBool(TRUE)

\* C5: on an absent key delete returns False and __delitem__ raises KeyError,
\* and neither changes a shard; a timeout never ends __delitem__, which calls
\* the same shard again, while it ends delete with retry=False at once, with
\* False.
C5_DeleteForms ==
    /\ [](\A c \in Solo :
            /\ (call[c].op = "__delitem__" /\ Done(c)) =>
                  /\ call[c].answered # NoResult
                  /\ call[c].result = call[c].answered
                  /\ call[c].touched = {Owner(c)}
            /\ (call[c].op = "delete" /\ ~call[c].retry /\ call[c].timeouts >= 1) =>
                  /\ Done(c)
                  /\ call[c].attempts = 1
                  /\ call[c].result = RetBool(FALSE))
    /\ [][\A c \in Solo :
            /\ (call[c].pc = "loop" /\ call[c].op \in {"delete", "__delitem__"}
                  /\ Absent(c) /\ call'[c].timeouts = call[c].timeouts) =>
                  /\ shards' = shards
                  /\ call'[c].pc = "done"
                  /\ call'[c].result = IF call[c].op = "delete"
                                       THEN RetBool(FALSE) ELSE Raise("KeyError")
            /\ (call[c].op = "__delitem__"
                  /\ call'[c].timeouts > call[c].timeouts) =>
                  /\ call'[c].pc = "loop"
                  /\ call'[c].index = call[c].index]_vars

\* A __delitem__ of an absent key that raised KeyError after a timeout.
C5_Witness ==
    \E c \in Solo :
        /\ call[c].op = "__delitem__" /\ Done(c)
        /\ call[c].timeouts >= 1
        /\ Absent(c)
        /\ call[c].result = Raise("KeyError")

SingleKeyOps ==
    {"set", "__setitem__", "add", "get", "__getitem__", "read", "__contains__",
     "delete", "__delitem__"}

\* C8: a single-key operation calls only shard hash(key) mod N, on every
\* attempt, and its steps leave every other shard as it was.
C8_OwnShardOnly ==
    /\ [](\A c \in Solo :
            call[c].op \in SingleKeyOps =>
                /\ call[c].index = Hash(call[c].key) % NumShards
                /\ call[c].touched \subseteq {Hash(call[c].key) % NumShards})
    /\ [][\A c \in Solo :
            (call[c].op \in SingleKeyOps /\ call[c].pc = "loop") =>
                \A s \in Shards \ {Hash(call[c].key) % NumShards} :
                    shards'[s] = shards[s]]_vars

\* A delete of key 1, stored in shard 1, that removed it on its third attempt.
C8_Witness ==
    \E c \in Solo :
        /\ call[c].op = "delete" /\ Done(c)
        /\ call[c].key = 1
        /\ call[c].attempts = 3
        /\ call[c].touched = {1}
        /\ call[c].result = RetBool(TRUE)

\* C9: key in cache asks the owning shard once: a timeout of that query is
\* raised to the caller, and otherwise the shard's answer, True or False, is
\* the result.
C9_ContainsOnce ==
    \A c \in Solo :
        call[c].op = "__contains__" =>
            /\ call[c].pc = "loop" => call[c].attempts = 0
            /\ Done(c) =>
                  /\ call[c].attempts = 1
                  /\ call[c].touched = {Owner(c)}
                  /\ \/ /\ call[c].timeouts = 1
                        /\ call[c].result = Raise("Timeout")
                     \/ /\ call[c].timeouts = 0
                        /\ call[c].result = call[c].answered
                        /\ call[c].result = RetBool(~Absent(c))

\* A membership test of a stored key that raised Timeout.
C9_Witness ==
    \E c \in Solo :
        /\ call[c].op = "__contains__" /\ Done(c)
        /\ ~Absent(c)
        /\ call[c].result = Raise("Timeout")

\* The clients that called add for key k, those of them add returned True
\* to, and the item stored for k in its shard.
Adders(k) == {c \in Clients : call[c].op = "add" /\ call[c].key = k}
Winners(k) == {c \in Adders(k) : call[c].result = RetBool(TRUE)}
AllDone == \A c \in Clients : Done(c)
Stored(k) == shards[Hash(k) % NumShards][k]

\* C2 as stated: of the concurrent add calls for one key, exactly one returns
\* True, and the value stored afterwards is the one it passed.
C2_ExactlyOneAdd ==
    AllDone =>
        \A k \in Keys :
            Cardinality(Adders(k)) >= 2 =>
                \E c \in Adders(k) :
                    /\ Winners(k) = {c}
                    /\ Stored(k) # Missing
                    /\ Stored(k)[1] = call[c].value

\* C2, amended: of the concurrent add calls for one key at most one returns
\* True; the key is stored exactly when one did, with the value that call
\* passed; and one does as soon as the shard answers any of the calls (a call
\* with retry=False that times out returns False, so all may return False).
C2_AddExclusive ==
    \A k \in Keys :
        /\ Cardinality(Winners(k)) <= 1
        /\ Stored(k) # Missing <=> Winners(k) # {}
        /\ \A c \in Winners(k) : Stored(k)[1] = call[c].value
        /\ (\E c \in Adders(k) : call[c].answered # NoResult) => Winners(k) # {}

\* Every client added the same key; one was told True, another one was
\* answered False by the shard after timing out first.
C2_Witness ==
    /\ AllDone
    /\ \E k \in Keys :
          /\ Adders(k) = Clients
          /\ Cardinality(Winners(k)) = 1
          /\ \E c \in Adders(k) \ Winners(k) :
                /\ call[c].answered = RetBool(FALSE)
                /\ call[c].timeouts >= 1

\* The operations whose callers see a shard's Timeout, per the claim.
ReadOriented == {"__contains__", "check", "stats", "volume", "__len__"}
TagIndexOps == {"create_tag_index", "drop_tag_index"}

\* C10 as stated: Timeout reaches the caller only from the membership test
\* and from check, stats, volume and len.
C10_TimeoutOnlyFromReaders ==
    \A c \in Solo :
        call[c].result = Raise("Timeout") => call[c].op \in ReadOriented

\* What a call that does not retry returns when the shard timed out.
GaveUp(r) ==
    IF r.op = "__getitem__" THEN Raise("KeyError") ELSE NoEffect(r)

\* C10, amended: Timeout reaches the caller only from the membership test,
\* from check, stats, volume and len, and from create_tag_index and
\* drop_tag_index, each of which raises it on the first timeout; every other
\* operation ends without it, with its "no effect" result after the timeout
\* when it does not retry, and with a later answer of the shard when it does.
C10_TimeoutSurfaces ==
    \A c \in Solo :
        /\ call[c].result = Raise("Timeout") =>
              call[c].op \in ReadOriented \cup TagIndexOps
        /\ (Done(c) /\ call[c].timeouts >= 1) =>
              IF call[c].op \in ReadOriented \cup TagIndexOps
              THEN call[c].result = Raise("Timeout") /\ call[c].timeouts = 1
              ELSE IF call[c].op \in RetryOps \cup {"__getitem__"} /\ ~call[c].retry
                   THEN call[c].result = GaveUp(call[c])
                   ELSE call[c].attempts > call[c].timeouts

\* create_tag_index raised Timeout at the second shard, the first shard's
\* index made.
C10_Witness ==
    \E c \in Solo :
        /\ call[c].op = "create_tag_index" /\ Done(c)
        /\ call[c].result = Raise("Timeout")
        /\ call[c].index = 1
        /\ settings[0]["tag_index"] = 1
        /\ settings[1]["tag_index"] = 0

Resetting(c) == call[c].op = "reset"
LastShard == NumShards - 1

\* C11: reset calls the shards in index order; a timeout leaves the call on
\* the same shard, and only an answer moves it on; it never raises Timeout;
\* when it returns, every shard has answered exactly once (the attempts are
\* the timeouts plus one per shard) and the result is the last shard's answer:
\* the value that shard holds for the key after its call.
C11_ResetEveryShard ==
    /\ [](\A c \in Clients :
            Resetting(c) =>
                /\ call[c].result # Raise("Timeout")
                /\ 0 .. (call[c].index - 1) \subseteq call[c].touched
                /\ call[c].touched \subseteq 0 .. call[c].index
                /\ Done(c) =>
                      /\ call[c].index = LastShard
                      /\ call[c].touched = Shards
                      /\ call[c].attempts = call[c].timeouts + NumShards
                      /\ call[c].result = call[c].answered)
    /\ [][\A c \in Clients :
            (Resetting(c) /\ call[c].pc = "loop" /\ call'[c] # call[c]) =>
                IF call'[c].timeouts > call[c].timeouts
                THEN /\ call'[c].pc = "loop"
                     /\ call'[c].index = call[c].index
                     /\ settings' = settings
                ELSE /\ call'[c].answered =
                           Ret("value", <<settings'[call[c].index][call[c].setting]>>)
                     /\ IF call[c].index = LastShard
                        THEN call'[c].pc = "done"
                             /\ call'[c].result = call'[c].answered
                        ELSE call'[c].pc = "loop"
                             /\ call'[c].index = call[c].index + 1]_vars

\* A reset without a value returned the last shard's setting after timeouts,
\* while the first shard holds another value (set there by a concurrent reset).
C11_Witness ==
    \E c \in Clients :
        /\ Resetting(c) /\ Done(c)
        /\ call[c].value = ENOVAL
        /\ call[c].timeouts = MaxTimeouts
        /\ call[c].result = Ret("value", <<settings[LastShard]["cull_limit"]>>)
        /\ settings[0]["cull_limit"] # settings[LastShard]["cull_limit"]

\* C12: add never overwrites.  A shard call of add for a key that is stored
\* changes no shard, and the call can only end with False; one for a key that
\* is not stored, unless it times out, ends the call with True and stores the
\* value under the key, in the owning shard and nowhere else.  And a plain get
\* that the shard answered returns the value stored: the one of the add that
\* returned True, not that of a later add.
C12_AddNeverOverwrites ==
    /\ [](\A c \in Solo :
            /\ (call[c].op = "add" /\ call[c].answered = RetBool(FALSE)) =>
                  /\ call[c].result = RetBool(FALSE)
                  /\ ~Absent(c)
            /\ (call[c].op = "add" /\ call[c].result = RetBool(TRUE)) =>
                  Stored(call[c].key) = Item(call[c].value, None, call[c].tag)
            /\ (call[c].op = "get" /\ Done(c) /\ call[c].timeouts = 0
                  /\ ~call[c].expire_time /\ ~call[c].wtag) =>
                  call[c].result.val =
                      IF Absent(c) THEN <<call[c].default>>
                      ELSE <<Stored(call[c].key)[1]>>)
    /\ [][\A c \in Solo :
            (call[c].op = "add" /\ call[c].pc = "loop" /\ call'[c] # call[c]) =>
                IF ~Absent(c)
                THEN /\ shards' = shards
                     /\ call'[c].pc = "done" => call'[c].result = RetBool(FALSE)
                ELSE IF call'[c].timeouts > call[c].timeouts
                     THEN shards' = shards
                     ELSE /\ call'[c].pc = "done"
                          /\ call'[c].result = RetBool(TRUE)
                          /\ shards' = [shards EXCEPT ![Owner(c)][call[c].key] =
                                Item(call[c].value, None, call[c].tag)]]_vars

\* An add of value 2 for a key stored with value 1 was answered False after a
\* timeout; the key still holds 1.
C12_Witness ==
    \E c \in Solo :
        /\ call[c].op = "add" /\ Done(c)
        /\ call[c].value = 2
        /\ call[c].timeouts >= 1
        /\ call[c].answered = RetBool(FALSE)
        /\ call[c].result = RetBool(FALSE)
        /\ Stored(call[c].key) # Missing
        /\ Stored(call[c].key)[1] = 1

\* C13: cache[key] = value ends only with the answer of a set call of the
\* owning shard, which stored the value under the key, however many attempts
\* timed out before; a timeout changes no shard and leaves the call running on
\* the same shard.  In contrast set with retry=False, once its attempt has
\* timed out, has ended with False, without an answer of the shard.
C13_SetItemAlwaysRetries ==
    /\ [](\A c \in Solo :
            /\ (call[c].op = "__setitem__" /\ Done(c)) =>
                  /\ call[c].answered = RetBool(TRUE)
                  /\ call[c].result = call[c].answered
                  /\ call[c].attempts = call[c].timeouts + 1
                  /\ call[c].touched = {Owner(c)}
                  /\ Stored(call[c].key) = Item(call[c].value, None, None)
            /\ (call[c].op = "set" /\ ~call[c].retry /\ call[c].timeouts >= 1) =>
                  /\ Done(c)
                  /\ call[c].result = RetBool(FALSE)
                  /\ call[c].answered = NoResult)
    /\ [][\A c \in Solo :
            (call[c].op \in {"__setitem__", "set"}
               /\ call'[c].timeouts > call[c].timeouts) =>
                /\ shards' = shards
                /\ call[c].op = "__setitem__" =>
                      /\ call'[c].pc = "loop"
                      /\ call'[c].index = call[c].index
                      /\ call'[c].result = NoResult]_vars

\* An assignment of value 2 returned after as many timeouts as the model
\* allows, the value stored.
C13_Witness ==
    \E c \in Solo :
        /\ call[c].op = "__setitem__" /\ Done(c)
        /\ call[c].timeouts = MaxTimeouts
        /\ call[c].value = 2
        /\ Stored(call[c].key) = Item(2, None, None)

\* C14: cache[key] raises KeyError exactly when the key is not stored in its
\* owning shard; for a stored key it returns the stored value, whatever
\* timeouts the shard reports.
C14_GetItemKeyErrorIffAbsent ==
    \A c \in Solo :
        (call[c].op = "__getitem__" /\ Done(c)) =>
            /\ call[c].result = Raise("KeyError") <=> Absent(c)
            /\ ~Absent(c) => call[c].result = Ret("value", <<Stored(call[c].key)[1]>>)

\* C15: delete returns True or False: True exactly on the shard call that
\* removed the item, which was stored and is the only change to the shards;
\* False when the shard reported the key absent, or, with retry=False, when
\* the shard timed out; and no step of a delete that does not end with True
\* changes a shard.
C15_DeleteTrueIffRemoved ==
    /\ [](\A c \in Solo :
            (call[c].op = "delete" /\ Done(c)) =>
                /\ call[c].result \in {RetBool(TRUE), RetBool(FALSE)}
                /\ call[c].result = RetBool(TRUE) =>
                      call[c].answered = RetBool(TRUE) /\ Absent(c)
                /\ call[c].result = RetBool(FALSE) =>
                      \/ call[c].answered = Raise("KeyError") /\ Absent(c)
                      \/ /\ ~call[c].retry /\ call[c].timeouts = 1
                         /\ call[c].answered = NoResult)
    /\ [][\A c \in Solo :
            (call[c].op = "delete" /\ call[c].pc = "loop" /\ call'[c] # call[c]) =>
                IF call'[c].result = RetBool(TRUE)
                THEN /\ ~Absent(c)
                     /\ shards' = [shards EXCEPT ![Owner(c)][call[c].key] = Missing]
                ELSE shards' = shards]_vars

\* A delete with retry=False of a stored key returned False because the shard
\* timed out; the key is still stored.
C15_Witness ==
    \E c \in Solo :
        /\ call[c].op = "delete" /\ Done(c) /\ ~call[c].retry
        /\ call[c].timeouts = 1
        /\ call[c].result = RetBool(FALSE)
        /\ ~Absent(c)

\* C16: expire, evict and clear sweep the shards in index order: the shards
\* called so far are those up to the current one; a sweep call that times out,
\* whatever its partial count, and one that returns a count other than zero
\* leave the call on the same shard; one that returns zero moves it to the
\* next shard, or ends the call when the shard is the last one, and nothing
\* else ends it.
C16_SweepInShardOrder ==
    /\ [](\A c \in Solo :
            Sweeping(c) =>
                /\ 0 .. (call[c].index - 1) \subseteq call[c].touched
                /\ call[c].touched \subseteq 0 .. call[c].index
                /\ Done(c) => call[c].index = LastShard /\ call[c].touched = Shards)
    /\ [][\A c \in Solo :
            (Sweeping(c) /\ call[c].pc = "loop" /\ call'[c] # call[c]) =>
                IF call'[c].timeouts > call[c].timeouts
                      \/ call'[c].total # call[c].total
                THEN /\ call'[c].pc = "loop"
                     /\ call'[c].index = call[c].index
                ELSE /\ shards' = shards
                     /\ IF call[c].index = LastShard
                        THEN call'[c].pc = "done"
                        ELSE /\ call'[c].pc = "loop"
                             /\ call'[c].index = call[c].index + 1]_vars

\* An evict that ended after a timeout and a sweep call that returned a count
\* other than zero: two attempts more than the shards, and items removed.
C16_Witness ==
    \E c \in Solo :
        /\ call[c].op = "evict" /\ Done(c)
        /\ call[c].timeouts = 1
        /\ call[c].attempts > NumShards + 1
        /\ call[c].total >= 2

\* The resets that have been called and are over, those still running, and
\* the values given to those that are over.
NoneInFlight == \A c \in Clients : call[c].pc # "loop"
Writers == {c \in Clients : Resetting(c) /\ call[c].value # ENOVAL}
Written == {call[c].value : c \in Writers}
Setting(s) == settings[s]["cull_limit"]

\* C17 as stated: once every reset of a setting has returned, all shards hold
\* the same value for it, also when two resets ran concurrently.
C17_SettingsCacheWide ==
    NoneInFlight => \A s, t \in Shards : Setting(s) = Setting(t)

\* C17, amended: once every reset of a setting has returned, every shard
\* holds a value one of the resets gave (its first value when none gave one),
\* so all shards hold the same value when the resets gave one value between
\* them; with different values each shard holds the one written there last,
\* and two shards may differ.
C17_SettingsOfSomeReset ==
    NoneInFlight =>
        /\ \A s \in Shards :
              IF Written = {} THEN Setting(s) = 0 ELSE Setting(s) \in Written
        /\ Cardinality(Written) <= 1 => \A s, t \in Shards : Setting(s) = Setting(t)

\* Every client has called reset, one of them with the value 2 and the others
\* with none, and after timeouts every shard holds 2, which the reset that
\* gave it and one that reloaded both returned.
C17_Witness ==
    /\ AllDone
    /\ Cardinality(Writers) = 1
    /\ \A s \in Shards : Setting(s) = 2
    /\ \A c \in Writers : call[c].timeouts >= 1 /\ call[c].result = Ret("value", <<2>>)
    /\ \E c \in Clients \ Writers : call[c].result = Ret("value", <<2>>)

\* C18: whichever operations the clients call and however their shard calls
\* interleave, a
\* key is stored in no shard but the one with index hash(key) mod N, hence in
\* at most one shard.
C18_Partition ==
    \A s \in Shards, k \in Keys :
        shards[s][k] # Missing => s = Hash(k) % NumShards

\* Two clients stored keys of different shards concurrently, one by an
\* assignment that timed out first and one by an add: each key is in its shard.
C18_Witness ==
    \E c, d \in Clients :
        /\ call[c].op = "__setitem__" /\ Done(c) /\ call[c].timeouts >= 1
        /\ call[d].op = "add" /\ Done(d) /\ call[d].result = RetBool(TRUE)
        /\ Owner(c) # Owner(d)
        /\ shards[Owner(c)][call[c].key] # Missing
        /\ shards[Owner(d)][call[d].key] # Missing

\* C19: read(key) is get with the sentinel as default, the stream flag set
\* and retry on: a timeout leaves it running on the same shard; it ends only
\* with an answer of the owning shard's get, raising KeyError exactly when
\* that answer is the sentinel, which is when the key is not stored, and
\* returning the answer, a handle on the stored value, otherwise.
C19_ReadRetries ==
    /\ [](\A c \in Solo :
            call[c].op = "read" =>
                /\ call[c].read /\ call[c].retry /\ call[c].default = ENOVAL
                /\ Done(c) =>
                      /\ call[c].answered # NoResult
                      /\ call[c].attempts = call[c].timeouts + 1
                      /\ call[c].touched = {Owner(c)}
                      /\ call[c].result = Raise("KeyError")
                            <=> call[c].answered = Ret("value", <<ENOVAL>>)
                      /\ call[c].result = Raise("KeyError") <=> Absent(c)
                      /\ ~Absent(c) =>
                            /\ call[c].result = call[c].answered
                            /\ call[c].result =
                                  Ret("handle", <<Stored(call[c].key)[1]>>))
    /\ [][\A c \in Solo :
            (call[c].op = "read" /\ call'[c].timeouts > call[c].timeouts) =>
                /\ call'[c].pc = "loop"
                /\ call'[c].index = call[c].index
                /\ call'[c].result = NoResult]_vars

\* A read of a stored key returned a handle on its value after as many
\* timeouts as the model allows.
C19_Witness ==
    \E c \in Solo :
        /\ call[c].op = "read" /\ Done(c)
        /\ call[c].timeouts = MaxTimeouts
        /\ ~Absent(c)
        /\ call[c].result = Ret("handle", <<2>>)

\* C20: when no shard times out for ever on a call that is issued again, and
\* nobody else stores items meanwhile, every call of set, add, get and delete
\* with retry=True, of __setitem__, __delitem__, read, reset, and of expire,
\* evict and clear returns, with a result or a KeyError and never a Timeout.
C20_RetryingCallsReturn ==
    \A c \in Solo :
        (call[c].pc = "loop") ~>
            (Done(c) /\ call[c].result # Raise("Timeout"))

\* The same without the assumption on the shards: a call that may loop for
\* ever on timeouts.
C20_ReturnsUnconditionally ==
    \A c \in Solo : (call[c].pc = "loop") ~> Done(c)

\* A clear that removed two items and returned after more timeouts than
\* MaxTimeouts.
C20_Witness ==
    \E c \in Solo :
        /\ call[c].op = "clear" /\ Done(c)
        /\ call[c].lapped
        /\ call[c].timeouts >= 1
        /\ call[c].result = Ret("count", <<2>>)
====
